---- MODULE Spec2Model ----
(***************************************************************************)
(* visa-bot-poc: the SSE stream relay (server/src/server.ts and the route  *)
(* handlers under server/src/routes) and the stream consumer               *)
(* (web/src/App.tsx, startStream / stopStream).                            *)
(*                                                                         *)
(* JavaScript values are tagged records, so that dynamically typed code    *)
(* (typeof, optional chaining, truthiness) is transcribed as written.      *)
(* Text on the wire is a sequence of units: one unit per punctuation mark  *)
(* that the framing looks at ("data:", " ", "\n", "{", "}") and one unit   *)
(* for the members of a JSON object.                                       *)
(***************************************************************************)
EXTENDS Integers, Sequences, FiniteSets, TLC

\* ------------------------------------------------------------------------
\* Bounds of the model.
\* ------------------------------------------------------------------------
MaxMsgs == 2
MaxSessions == 2
MaxFrames == 2

\* ------------------------------------------------------------------------
\* JavaScript values.
\* ------------------------------------------------------------------------
Undefined == [ty |-> "undefined"]
Null == [ty |-> "null"]
Str(s) == [ty |-> "string", s |-> s]
Num(n) == [ty |-> "number", n |-> n]
Obj(fields) == [ty |-> "object", f |-> fields]
Arr(items) == [ty |-> "array", a |-> items]
EmptyObj == Obj(<<>>)

IsNullish(v) == v.ty \in {"undefined", "null"}
IsString(v) == v.ty = "string"
\* typeof v === "object" (null is tested apart by the callers' truthiness test)
IsObjectType(v) == v.ty \in {"object", "array", "null"}
Truthy(v) ==
    /\ ~IsNullish(v)
    /\ ~(v.ty = "string" /\ v.s = "")
    /\ ~(v.ty = "number" /\ v.n = 0)

\* v.k for a value that is not null or undefined (those throw a TypeError,
\* which the callers model where the code can reach it).
Get(v, k) ==
    IF v.ty = "object" /\ k \in DOMAIN v.f THEN v.f[k] ELSE Undefined
\* v?.k
OptGet(v, k) == IF IsNullish(v) THEN Undefined ELSE Get(v, k)
\* v?.[0]
OptFirst(v) ==
    IF v.ty = "array" /\ Len(v.a) >= 1 THEN v.a[1]
    ELSE IF IsNullish(v) THEN Undefined ELSE Get(v, "0")
\* Mutant: the left operand is taken as it is.
CoalesceLeft(v, d) == v

\* v ?? d
Coalesce(v, d) == IF IsNullish(v) THEN d ELSE v

\* ------------------------------------------------------------------------
\* web/src/App.tsx: extractTextFromPayload.
\* ------------------------------------------------------------------------
RECURSIVE JoinTexts(_)
\* Mutant: only the first item's text is taken.
JoinTextsFirst(items) ==
    IF items # <<>> /\ IsString(OptGet(Head(items), "text"))
    THEN OptGet(Head(items), "text").s
    ELSE ""

\* content.map(c => typeof c?.text === "string" ? c.text : null)
\*        .filter(Boolean).join("")
JoinTexts(items) ==
    IF items = <<>> THEN ""
    ELSE LET c == OptGet(Head(items), "text")
             part == IF IsString(c) THEN c.s ELSE ""
         IN part \o JoinTexts(Tail(items))

extractTextFromPayload(payload) ==
    IF ~Truthy(payload) \/ ~IsObjectType(payload) THEN ""
    ELSE IF IsString(Get(payload, "delta")) THEN Get(payload, "delta").s
    ELSE IF IsString(Get(payload, "text")) THEN Get(payload, "text").s
    ELSE IF Truthy(Get(payload, "data"))
            /\ IsString(Get(Get(payload, "data"), "text"))
         THEN Get(Get(payload, "data"), "text").s
    ELSE LET content ==
                 OptGet(OptFirst(OptGet(OptGet(payload, "response"), "output")),
                        "content")
         IN IF content.ty = "array" /\ JoinTexts(content.a) # ""
            THEN JoinTexts(content.a)
            ELSE ""

\* ------------------------------------------------------------------------
\* Text and bytes.  U(c) is a unit of ASCII text, J(v) the unit of text that
\* spells the JSON literal v (for an object: its members, between the units
\* "{" and "}").
\* ------------------------------------------------------------------------
U(c) == [ch |-> c]
J(v) == [ch |-> "json", doc |-> v]
NL == U("\n")
SP == U(" ")
DataPrefix == U("data:")
Replacement == U("U+FFFD")
Whitespace == {NL, SP}

\* Strings that hold a character outside ASCII (two bytes in UTF-8).
NonAsciiStrings == {"U+00E9"}

RECURSIVE HasNonAscii(_)
HasNonAscii(v) ==
    CASE v.ty = "string" -> v.s \in NonAsciiStrings
      [] v.ty = "object" -> \E k \in DOMAIN v.f : HasNonAscii(v.f[k])
      [] v.ty = "array" -> \E i \in 1..Len(v.a) : HasNonAscii(v.a[i])
      [] OTHER -> FALSE

IsWide(u) == u.ch = "json" /\ HasNonAscii(u.doc)

RECURSIVE Utf8Encode(_)
\* The bytes that go on the wire for a text: a unit holding a two-byte
\* character is a lead byte and a continuation byte.
Utf8Encode(text) ==
    IF text = <<>> THEN <<>>
    ELSE LET u == Head(text)
         IN (IF IsWide(u)
             THEN <<[ch |-> "lead", of |-> u], [ch |-> "cont", of |-> u]>>
             ELSE <<u>>) \o Utf8Encode(Tail(text))

RECURSIVE Decode(_, _)
\* new TextDecoder().decode(value, {stream: true}): `pending` is the lead
\* byte held back from the chunk before.  Returns the text decoded and the
\* bytes held back.
Decode(pending, bytes) ==
    IF bytes = <<>> THEN [out |-> <<>>, pending |-> pending]
    ELSE LET b == Head(bytes)
         IN IF pending # <<>>
            THEN IF b.ch = "cont" /\ b.of = pending[1].of
                 THEN LET r == Decode(<<>>, Tail(bytes))
                      IN [out |-> <<b.of>> \o r.out, pending |-> r.pending]
                 ELSE LET r == Decode(<<>>, bytes)
                      IN [out |-> <<Replacement>> \o r.out, pending |-> r.pending]
            ELSE IF b.ch = "lead" THEN Decode(<<b>>, Tail(bytes))
            ELSE LET r == Decode(<<>>, Tail(bytes))
                 IN [out |-> <<IF b.ch = "cont" THEN Replacement ELSE b>> \o r.out,
                     pending |-> r.pending]

\* ------------------------------------------------------------------------
\* JSON.stringify and JSON.parse.
\* ------------------------------------------------------------------------
RECURSIVE Strip(_)
\* What survives JSON.stringify: members whose value is undefined are left
\* out, undefined array items become null.
Strip(v) ==
    CASE v.ty = "object" ->
             Obj([k \in {x \in DOMAIN v.f : v.f[x].ty # "undefined"} |-> Strip(v.f[k])])
      [] v.ty = "array" ->
             Arr([i \in 1..Len(v.a) |->
                     IF v.a[i].ty = "undefined" THEN Null ELSE Strip(v.a[i])])
      [] OTHER -> v

\* JSON.stringify(v), v not undefined
JsonStringify(v) ==
    IF v.ty = "object" THEN <<U("{"), J(Strip(v)), U("}")>> ELSE <<J(Strip(v))>>

RECURSIVE TrimStart(_)
TrimStart(text) ==
    IF text # <<>> /\ Head(text) \in Whitespace THEN TrimStart(Tail(text)) ELSE text

RECURSIVE TrimEnd(_)
TrimEnd(text) ==
    IF text # <<>> /\ text[Len(text)] \in Whitespace
    THEN TrimEnd(SubSeq(text, 1, Len(text) - 1))
    ELSE text

\* String.prototype.trim
Trim(text) == TrimEnd(TrimStart(text))

\* Mutant: a failed parse yields null instead of throwing.
ThrownAsNull == [ok |-> TRUE, v |-> Null]

Thrown == [ok |-> FALSE]
Returned(v) == [ok |-> TRUE, v |-> v]

\* JSON.parse(text): white space around the literal is allowed, anything
\* else than one complete literal is a SyntaxError.
JsonParse(text) ==
    LET t == Trim(text)
    IN IF Len(t) = 3 /\ t[1] = U("{") /\ t[3] = U("}")
          /\ t[2].ch = "json" /\ t[2].doc.ty = "object"
       THEN Returned(t[2].doc)
       ELSE IF Len(t) = 1 /\ t[1].ch = "json" /\ t[1].doc.ty # "object"
       THEN Returned(t[1].doc)
       ELSE Thrown

\* ------------------------------------------------------------------------
\* web/src/App.tsx: the body of the read loop of startStream.
\* ------------------------------------------------------------------------
FirstDelimiter(buf) ==
    LET hits == {i \in 1..(Len(buf) - 1) : buf[i] = NL /\ buf[i + 1] = NL}
    IN IF hits = {} THEN 0 ELSE CHOOSE i \in hits : \A j \in hits : i <= j

RECURSIVE Split(_)
\* buffer.split("\n\n")
Split(buf) ==
    LET i == FirstDelimiter(buf)
    IN IF i = 0 THEN <<buf>>
       ELSE <<SubSeq(buf, 1, i - 1)>> \o Split(SubSeq(buf, i + 2, Len(buf)))

\* Mutant: every frame is taken for a data frame.
StartsWithAnything(line) == TRUE

\* line.startsWith("data:")
StartsWithData(line) == line # <<>> /\ Head(line) = DataPrefix

\* line.replace(/^data:\s?/, ""): a line without the prefix is left as it is
RemoveDataPrefix(line) ==
    IF line # <<>> /\ Head(line) = DataPrefix
    THEN (IF Tail(line) # <<>> /\ Head(Tail(line)) \in Whitespace
          THEN Tail(Tail(line))
          ELSE Tail(line))
    ELSE line

\* Mutant: the transcript is replaced by the text of the event instead of
\* extended by it.
ProcessFrameReplacing(st, chunk) ==
    LET line == Trim(chunk)
        jsonStr == RemoveDataPrefix(line)
        parsed == JsonParse(jsonStr)
        evt == parsed.v
        logged == [st EXCEPT !.events = Append(@, evt)]
        text == extractTextFromPayload(Get(evt, "payload"))
        withText ==
            IF Get(evt, "event") = Str("message") /\ Truthy(Get(evt, "payload"))
               /\ text # ""
            THEN [logged EXCEPT !.transcript = text]
            ELSE logged
    IN IF ~StartsWithData(line) THEN st
       ELSE IF ~parsed.ok THEN st
       ELSE IF IsNullish(evt) THEN logged
       ELSE IF Get(evt, "event") = Str("final")
       THEN [withText EXCEPT !.finalJson = Coalesce(Get(evt, "data"), Null)]
       ELSE withText

\* Mutant: the text of the payload is appended whatever the kind of event.
ProcessFrameAnyEventText(st, chunk) ==
    LET line == Trim(chunk)
        jsonStr == RemoveDataPrefix(line)
        parsed == JsonParse(jsonStr)
        evt == parsed.v
        logged == [st EXCEPT !.events = Append(@, evt)]
        text == extractTextFromPayload(Get(evt, "payload"))
        withText ==
            IF Truthy(Get(evt, "payload")) /\ text # ""
            THEN [logged EXCEPT !.transcript = @ \o text]
            ELSE logged
    IN IF ~StartsWithData(line) THEN st
       ELSE IF ~parsed.ok THEN st
       ELSE IF IsNullish(evt) THEN logged
       ELSE IF Get(evt, "event") = Str("final")
       THEN [withText EXCEPT !.finalJson = Coalesce(Get(evt, "data"), Null)]
       ELSE withText

\* Mutant: the text of the event is put before the transcript.
ProcessFramePrepending(st, chunk) ==
    LET line == Trim(chunk)
        jsonStr == RemoveDataPrefix(line)
        parsed == JsonParse(jsonStr)
        evt == parsed.v
        logged == [st EXCEPT !.events = Append(@, evt)]
        text == extractTextFromPayload(Get(evt, "payload"))
        withText ==
            IF Get(evt, "event") = Str("message") /\ Truthy(Get(evt, "payload"))
               /\ text # ""
            THEN [logged EXCEPT !.transcript = text \o @]
            ELSE logged
    IN IF ~StartsWithData(line) THEN st
       ELSE IF ~parsed.ok THEN st
       ELSE IF IsNullish(evt) THEN logged
       ELSE IF Get(evt, "event") = Str("final")
       THEN [withText EXCEPT !.finalJson = Coalesce(Get(evt, "data"), Null)]
       ELSE withText

\* The React state the loop writes: [events, transcript, finalJson].
\* The body of `for (const chunk of parts)` for one complete frame.
ProcessFrame(st, chunk) ==
    LET line == Trim(chunk)
        jsonStr == RemoveDataPrefix(line)
        parsed == JsonParse(jsonStr)
        evt == parsed.v
        logged == [st EXCEPT !.events = Append(@, evt)]
        text == extractTextFromPayload(Get(evt, "payload"))
        withText ==
            IF Get(evt, "event") = Str("message") /\ Truthy(Get(evt, "payload"))
               /\ text # ""
            THEN [logged EXCEPT !.transcript = @ \o text]
            ELSE logged
    IN IF ~StartsWithData(line) THEN st
       ELSE IF ~parsed.ok THEN st
       \* evt.event on null throws inside the try, after setEvents
       ELSE IF IsNullish(evt) THEN logged
       ELSE IF Get(evt, "event") = Str("final")
       THEN [withText EXCEPT !.finalJson = Coalesce(Get(evt, "data"), Null)]
       ELSE withText

RECURSIVE ProcessFrames(_, _)
ProcessFrames(st, parts) ==
    IF parts = <<>> THEN st
    ELSE ProcessFrames(ProcessFrame(st, Head(parts)), Tail(parts))

\* Mutant: the incomplete last piece is dropped instead of kept.
NextBufferCleared(parts) == <<>>

\* buffer = parts.pop() ?? ""
NextBuffer(parts) == parts[Len(parts)]

\* One iteration of the loop for a chunk `value` of bytes.  `loc` is the
\* session's [buffer, pending]; returns the new loc and the new React state.
ProcessChunk(loc, st, value) ==
    LET d == Decode(loc.pending, value)
        parts == Split(loc.buffer \o d.out)
    IN [loc |-> [buffer |-> NextBuffer(parts), pending |-> d.pending],
        st |-> ProcessFrames(st, SubSeq(parts, 1, Len(parts) - 1))]

\* ------------------------------------------------------------------------
\* server/src/server.ts: VisaIntakeSchema and extractJsonFromResponse.
\* ------------------------------------------------------------------------
VisaFull ==
    Obj([full_name |-> Str("Jane Doe"), dob |-> Str("1991-04-12"),
         passport_number |-> Str("AB1234567"), nationality |-> Str("UK")])
VisaPartial == Obj([full_name |-> Str("Jane Doe")])

\* The strings of the model that match ^\d{4}-\d{2}-\d{2}$
DateShaped == {"1991-04-12"}

VisaIntakeSchema(v) ==
    /\ v.ty = "object"
    /\ DOMAIN v.f = {"full_name", "dob", "passport_number", "nationality"}
    /\ \A k \in DOMAIN v.f : IsString(v.f[k])
    /\ Len(v.f.full_name.s) >= 1
    /\ v.f.dob.s \in DateShaped
    /\ Len(v.f.passport_number.s) >= 5
    /\ Len(v.f.nationality.s) >= 2

\* The JavaScript strings of the model that are JSON texts, with the value
\* each denotes; JSON.parse of any other string throws.
VisaText == "{\"full_name\":\"Jane Doe\",\"dob\":\"1991-04-12\",\"passport_number\":\"AB1234567\",\"nationality\":\"UK\"}"
PartialText == "{\"full_name\":\"Jane Doe\"}"
JsonTexts == (VisaText :> VisaFull) @@ (PartialText :> VisaPartial) @@ ("null" :> Null)

\* JSON.parse(s) for a JavaScript string s
JsonParseString(s) ==
    IF s \in DOMAIN JsonTexts THEN Returned(JsonTexts[s]) ELSE Thrown

\* raw.match(/\{[\s\S]*\}$/): from the first "{" to the end, when the text
\* ends with "}".
MatchTrailingBraces(raw) ==
    LET opens == {i \in 1..Len(raw) : raw[i] = U("{")}
    IN IF opens # {} /\ raw[Len(raw)] = U("}")
       THEN <<SubSeq(raw, CHOOSE i \in opens : \A j \in opens : i <= j, Len(raw))>>
       ELSE <<>>

\* Mutant: the structured content is tried before the aggregated text.
extractJsonStructuredFirst(r) ==
    IF IsNullish(r) THEN Null
    ELSE LET maybeText == Get(r, "output_text")
             fromText == IF IsString(maybeText) THEN JsonParseString(maybeText.s) ELSE Thrown
             content == OptFirst(OptGet(OptFirst(OptGet(r, "output")), "content"))
             match == MatchTrailingBraces(JsonStringify(r))
         IN IF OptGet(content, "type") = Str("output_json") THEN Get(content, "json")
            ELSE IF Truthy(maybeText) /\ fromText.ok THEN fromText.v
            ELSE IF match # <<>>
            THEN (IF JsonParse(match[1]).ok THEN JsonParse(match[1]).v ELSE Null)
            ELSE Null

extractJsonFromResponse(r) ==
    \* (r as any).output_text on null or undefined throws: the outer catch
    IF IsNullish(r) THEN Null
    ELSE LET maybeText == Get(r, "output_text")
             fromText == IF IsString(maybeText) THEN JsonParseString(maybeText.s) ELSE Thrown
             content == OptFirst(OptGet(OptFirst(OptGet(r, "output")), "content"))
             match == MatchTrailingBraces(JsonStringify(r))
         IN IF Truthy(maybeText) /\ fromText.ok THEN fromText.v
            ELSE IF OptGet(content, "type") = Str("output_json") THEN Get(content, "json")
            ELSE IF match # <<>>
            THEN (IF JsonParse(match[1]).ok THEN JsonParse(match[1]).v ELSE Null)
            ELSE Null

\* ------------------------------------------------------------------------
\* State.
\* ------------------------------------------------------------------------
VARIABLES
    impl,           \* which stream handler serves POST /api/chat/stream:
                    \*   "server" (server.ts) or "routes" (routes/chatStream.ts)
    srv,            \* per HTTP request: the request, the response, the upstream session
    error,          \* App.tsx React state
    events,
    finalJson,
    transcript,
    isStreaming,
    controllerRef,  \* controllerRef.current: 0 (null) or the session whose controller it holds
    sess,           \* per startStream call: where its async body is, its buffer and decoder
    started,        \* number of startStream calls so far
    cuts,           \* the kinds of chunk boundary the network has produced so far
    chat,           \* the last exchange on the non-streaming endpoint
    call,           \* a call of one of the helper functions: its argument and outcome
    currentStep,    \* App.tsx React state of the wizard
    answers,
    wizardError,
    wizardLoading,
    wizardFinalJson,
    submit,         \* the request of submitIntake to /api/chat, while in flight
    speaks,         \* the runs of speak() that await /api/tts
    questionAudioRef,   \* questionAudioRef.current: "null" or the audio of a question
    playing         \* the audio elements that are playing

wizardVars == <<currentStep, answers, wizardError, wizardLoading, wizardFinalJson, submit>>
speechVars == <<speaks, questionAudioRef, playing>>
streamVars == <<impl, srv, error, events, finalJson, transcript, isStreaming,
                controllerRef, sess, started, cuts, chat, call>>
vars == <<streamVars, wizardVars, speechVars>>
consumerState == <<error, events, finalJson, transcript, isStreaming, controllerRef>>

Requests == 1..MaxSessions

NoRequest ==
    [phase |-> "none", userMessage |-> Undefined, status |-> 0, sse |-> FALSE,
     body |-> <<>>, ended |-> FALSE, up |-> "none", emitted |-> <<>>]
NoSession == [pc |-> "idle", pos |-> 0, buffer |-> <<>>, pending |-> <<>>]
NoChat == [phase |-> "none"]
NoCall == [phase |-> "none"]

\* ------------------------------------------------------------------------
\* web/src/App.tsx: the intake wizard and the read-aloud effect.
\* ------------------------------------------------------------------------
\* The text of an input field, character by character.
T(chars) == [i \in DOMAIN chars |-> U(chars[i])]

QuestionKeys == <<"full_name", "dob", "nationality", "passport_number">>

\* questionsConfig.questions sorted by order; the title stands for itself.
questions ==
    [i \in DOMAIN QuestionKeys |->
        [key |-> QuestionKeys[i], title |-> "Title of " \o QuestionKeys[i], order |-> i]]

totalSteps == Len(questions)
isReviewStep(step) == step >= totalSteps
\* questions[step] (the source counts from 0)
QuestionAt(step) == questions[step + 1]

initialAnswers == [k \in {questions[i].key : i \in DOMAIN questions} |-> <<>>]

\* What the user types into the field of a question.
AnswerValues(key) ==
    CASE key = "full_name" -> {<<>>, <<SP, SP>>, T(<<"J", "a", "n", "e">>)}
      [] key = "dob" -> {<<>>, T(<<"1", "9", "9", "1", "-", "4", "-", "1", "2">>),
                         T(<<"1", "9", "9", "1", "-", "0", "4", "-", "1", "2">>)}
      [] key = "nationality" -> {<<>>, T(<<"U", "K">>)}
      [] key = "passport_number" -> {<<>>, <<SP>> \o T(<<"A", "B", "1", "2">>) \o <<SP>>,
                                     T(<<"A", "B", "1", "2", "3", "4", "5">>)}

Digits == {U("0"), U("1"), U("2"), U("3"), U("4"), U("5"), U("6"), U("7"), U("8"), U("9")}

\* /^\d{4}-\d{2}-\d{2}$/.test(value)
MatchesDatePattern(value) ==
    /\ Len(value) = 10
    /\ \A i \in {1, 2, 3, 4, 6, 7, 9, 10} : value[i] \in Digits
    /\ value[5] = U("-")
    /\ value[8] = U("-")

\* Mutant: every value passes.
validateNothing(key, value) == Null

validate(key, value) ==
    CASE key = "full_name" ->
             IF Trim(value) # <<>> THEN Null ELSE Str("Please enter your full name.")
      [] key = "dob" ->
             IF MatchesDatePattern(value) THEN Null ELSE Str("Use format YYYY-MM-DD.")
      [] key = "nationality" ->
             IF Trim(value) # <<>> THEN Null ELSE Str("Please enter your nationality.")
      [] key = "passport_number" ->
             IF Len(Trim(value)) >= 5 THEN Null ELSE Str("Passport number looks too short.")
      [] OTHER -> Null

NoSubmit == [phase |-> "none"]
NoAudio == "null"

\* The state of the effect: the requests to /api/tts in flight, each with the
\* `cancelled` flag of its closure (requests for one question with one flag
\* are not told apart), questionAudioRef.current, and the audio elements
\* that are playing, each named by the question it was requested for.
SpeechState == [speaks |-> speaks, questionAudioRef |-> questionAudioRef, playing |-> playing]

\* questionAudioRef.current?.pause(); questionAudioRef.current = null;
PauseAndDrop(sp) ==
    [sp EXCEPT !.playing = @ \ {sp.questionAudioRef}, !.questionAudioRef = NoAudio]

\* Mutant: the cleanup leaves the flag of the closure as it is.
EffectCleanupKeepsFlag(sp) == PauseAndDrop(sp)

\* the function the effect returns
EffectCleanup(sp) ==
    PauseAndDrop([sp EXCEPT !.speaks = {[s EXCEPT !.cancelled = TRUE] : s \in @}])

\* the body of the effect, up to the call of speak()
EffectBody(sp, step) ==
    IF isReviewStep(step)
    THEN PauseAndDrop(sp)
    ELSE [sp EXCEPT !.speaks = @ \cup {[q |-> QuestionAt(step).key, cancelled |-> FALSE]}]

\* useEffect(..., [isReviewStep, currentQuestion?.title]): after a render in
\* which the step changed, the cleanup of the last run (a run at the review
\* step returns none), then the body.
RunEffect(sp, from, to) ==
    IF from = to THEN sp
    ELSE EffectBody(IF isReviewStep(from) THEN sp ELSE EffectCleanup(sp), to)

Rendered(to) ==
    LET sp == RunEffect(SpeechState, currentStep, to)
    IN /\ currentStep' = to
       /\ speaks' = sp.speaks
       /\ questionAudioRef' = sp.questionAudioRef
       /\ playing' = sp.playing

\* onChange of the input: `currentQuestion && setAnswers(...)`
EditAnswer(value) ==
    /\ ~isReviewStep(currentStep)
    /\ value \in AnswerValues(QuestionAt(currentStep).key)
    /\ answers' = [answers EXCEPT ![QuestionAt(currentStep).key] = value]
    /\ UNCHANGED <<currentStep, wizardError, wizardLoading, wizardFinalJson, submit,
                   speechVars, streamVars>>

goNext ==
    /\ IF isReviewStep(currentStep)
       THEN /\ wizardError' = Null
            /\ Rendered(currentStep)
       ELSE LET step == QuestionAt(currentStep)
                err == validate(step.key, answers[step.key])
            IN IF Truthy(err)
               THEN /\ wizardError' = err
                    /\ Rendered(currentStep)
               ELSE /\ wizardError' = Null
                    /\ Rendered(IF currentStep + 1 < totalSteps THEN currentStep + 1
                                ELSE totalSteps)
    /\ UNCHANGED <<answers, wizardLoading, wizardFinalJson, submit, streamVars>>

goBack ==
    /\ wizardError' = Null
    /\ Rendered(IF currentStep - 1 > 0 THEN currentStep - 1 ELSE 0)
    /\ UNCHANGED <<answers, wizardLoading, wizardFinalJson, submit, streamVars>>

\* Mutant: the last question whose answer fails is taken.
FirstFailingLast ==
    LET failing == {i \in DOMAIN questions :
                       Truthy(validate(questions[i].key, answers[questions[i].key]))}
    IN IF failing = {} THEN 0
       ELSE CHOOSE i \in failing : \A j \in failing : i >= j

\* The index (from 1) of the first question whose answer fails, 0 if none:
\* the `for (const q of questions)` loop.
FirstFailing ==
    LET failing == {i \in DOMAIN questions :
                       Truthy(validate(questions[i].key, answers[questions[i].key]))}
    IN IF failing = {} THEN 0
       ELSE CHOOSE i \in failing : \A j \in failing : i <= j

\* questions.map(q => `${q.title}: ${answers[q.key] || ""}`), to be joined
SubmitMessage == [i \in DOMAIN questions |->
                     [title |-> questions[i].title, value |-> answers[questions[i].key]]]

\* submitIntake up to its `await fetch(...)`.
submitIntake ==
    /\ wizardFinalJson' = Null
    /\ IF FirstFailing # 0
       THEN LET q == questions[FirstFailing]
                err == validate(q.key, answers[q.key])
            IN /\ wizardError' = Str(q.title \o ": " \o err.s)
               /\ Rendered(FirstFailing - 1)
               /\ UNCHANGED <<wizardLoading, submit>>
       ELSE /\ wizardError' = Null
            /\ wizardLoading' = TRUE
            /\ submit' = [phase |-> "pending", userMessage |-> SubmitMessage]
            /\ Rendered(currentStep)
    /\ UNCHANGED <<answers, streamVars>>

\* The buttons, as the JSX renders them: "Next question" (and Enter in the
\* input) while a question is shown, "Back" from the second question on and
\* at the review step, "Submit responses" at the review step, disabled while
\* wizardLoading.
NextButton == ~isReviewStep(currentStep) /\ goNext
BackButton == currentStep > 0 /\ goBack
SubmitButton == isReviewStep(currentStep) /\ ~wizardLoading /\ submitIntake

\* What the request to /api/chat comes to: a response with a status and a
\* body, or a rejection with a message.
SubmitOutcomes ==
    {[kind |-> "response", status |-> 200, json |-> Obj([data |-> VisaFull])],
     [kind |-> "response", status |-> 200, json |-> Obj([data |-> Null])],
     [kind |-> "response", status |-> 200, json |-> EmptyObj],
     [kind |-> "response", status |-> 400, json |-> Obj([error |-> Str("bad_request")])],
     [kind |-> "response", status |-> 500, json |-> Obj([error |-> Str("server_error")])],
     [kind |-> "rejection", message |-> "Failed to fetch"],
     [kind |-> "rejection", message |-> ""]}

StatusText(status) == IF status = 400 THEN "400" ELSE "500"

\* submitIntake from the point where `await fetch(...)` settles.
submitSettle(o) ==
    /\ submit.phase = "pending"
    /\ submit' = NoSubmit
    /\ IF o.kind = "response" /\ o.status = 200
       THEN /\ wizardFinalJson' = Coalesce(OptGet(o.json, "data"), Null)
            /\ UNCHANGED wizardError
       ELSE /\ wizardError' =
                   IF o.kind = "response"
                   THEN Str("Submit failed (" \o StatusText(o.status) \o ")")
                   ELSE IF o.message # "" THEN Str(o.message) ELSE Str("Submission error")
            /\ UNCHANGED wizardFinalJson
    /\ wizardLoading' = FALSE
    /\ UNCHANGED <<currentStep, answers, speechVars, streamVars>>

\* What a request to /api/tts comes to.
SpeakOutcomes == {"audio", "no audio", "failed"}

\* speak() from the point where `await resp.json()` settles (a response that
\* is not ok or a rejection throws before), for the request s; play() may
\* be refused by the browser.
speakSettle(s, outcome, blocked) ==
    /\ s \in speaks
    /\ speaks' = speaks \ {s}
    /\ IF outcome = "audio" /\ ~s.cancelled
       THEN /\ questionAudioRef' = s.q
            /\ playing' = (playing \ {questionAudioRef}) \cup (IF blocked THEN {} ELSE {s.q})
       ELSE UNCHANGED <<questionAudioRef, playing>>
    /\ UNCHANGED <<wizardVars, streamVars>>

InitWizard ==
    /\ currentStep = 0
    /\ answers = initialAnswers
    /\ wizardError = Null
    /\ wizardLoading = FALSE
    /\ wizardFinalJson = Null
    /\ submit = NoSubmit
    \* the effect has run for the first question
    /\ speaks = {[q |-> QuestionAt(0).key, cancelled |-> FALSE]}
    /\ questionAudioRef = NoAudio
    /\ playing = {}

\* ------------------------------------------------------------------------
\* The HTTP response object (express).
\* ------------------------------------------------------------------------
\* Mutant: the text is put before what was written.
ResWritePrepended(body, text) == Utf8Encode(text) \o body

\* res.write(text)
ResWrite(body, text) == body \o Utf8Encode(text)

\* res.status(400).json({error: "bad_request", message: ...})
BadRequest(x) ==
    [x EXCEPT !.phase = "handled", !.status = 400, !.ended = TRUE,
              !.body = ResWrite(@, JsonStringify(Obj([error |-> Str("bad_request"),
                  message |-> Str("userMessage (string) is required")])))]

HeadersSent(x) == x.body # <<>> \/ x.ended

\* The frames the handlers write.
DataFrame(v) == <<DataPrefix, SP>> \o JsonStringify(v) \o <<NL, NL>>
EventLine(name) == <<U("event: " \o name), NL>>

\* ------------------------------------------------------------------------
\* The relay: app.post("/api/chat/stream") of server.ts and
\* chatStreamHandler of routes/chatStream.ts.  The upstream session is the
\* collaborator: it emits message events, then one finalMessage, then end,
\* or error at any point before end.
\* ------------------------------------------------------------------------
\* server.ts 138-164: validate, set the SSE headers, open the upstream stream
ServerHandleRequest(x) ==
    IF ~Truthy(x.userMessage) \/ ~IsString(x.userMessage)
    THEN BadRequest(x)
    ELSE [x EXCEPT !.phase = "handled", !.status = 200, !.sse = TRUE, !.up = "open"]

\* routes/chatStream.ts 8-29: no validation
RoutesHandleRequest(x) ==
    [x EXCEPT !.phase = "handled", !.status = 200, !.sse = TRUE, !.up = "open"]

HandleRequest(r) ==
    /\ srv[r].phase = "pending"
    /\ srv' = [srv EXCEPT ![r] = IF impl = "server" THEN ServerHandleRequest(@)
                                 ELSE RoutesHandleRequest(@)]
    /\ UNCHANGED <<impl, consumerState, sess, started, cuts, chat, call, wizardVars, speechVars>>

\* stream.on("message", ...)
ServerOnMessage(x, msg) ==
    [x EXCEPT !.body = ResWrite(@, DataFrame(Obj([event |-> Str("message"), payload |-> msg])))]
RoutesOnMessage(x, msg) ==
    [x EXCEPT !.body = ResWrite(@, DataFrame(msg))]

MessagesEmitted(x) == Len(SelectSeq(x.emitted, LAMBDA e : e.kind = "message"))

OnMessage(r, msg) ==
    /\ srv[r].up = "open"
    /\ MessagesEmitted(srv[r]) < MaxMsgs
    /\ LET x == [srv[r] EXCEPT !.emitted = Append(@, [kind |-> "message", arg |-> msg])]
       IN srv' = [srv EXCEPT ![r] = IF impl = "server" THEN ServerOnMessage(x, msg)
                                    ELSE RoutesOnMessage(x, msg)]
    /\ UNCHANGED <<impl, consumerState, sess, started, cuts, chat, call, wizardVars, speechVars>>

\* stream.on("finalMessage", ...): server.ts only
ServerOnFinalMessage(x, finalMsg) ==
    [x EXCEPT !.body = ResWrite(@, DataFrame(Obj([event |-> Str("final"),
                                      data |-> extractJsonFromResponse(finalMsg)])))]

OnFinalMessage(r, finalMsg) ==
    /\ srv[r].up = "open"
    /\ LET x == [srv[r] EXCEPT !.up = "finalizing",
                      !.emitted = Append(@, [kind |-> "finalMessage", arg |-> finalMsg])]
       IN srv' = [srv EXCEPT ![r] = IF impl = "server" THEN ServerOnFinalMessage(x, finalMsg)
                                    ELSE x]
    /\ UNCHANGED <<impl, consumerState, sess, started, cuts, chat, call, wizardVars, speechVars>>

\* stream.on("end", ...)
ServerOnEnd(x) == [x EXCEPT !.body = ResWrite(@, EventLine("end")), !.ended = TRUE]
RoutesOnEnd(x) == [x EXCEPT !.ended = TRUE]

OnEnd(r) ==
    /\ srv[r].up = "finalizing"
    /\ LET x == [srv[r] EXCEPT !.up = "closed",
                      !.emitted = Append(@, [kind |-> "end", arg |-> Undefined])]
       IN srv' = [srv EXCEPT ![r] = IF impl = "server" THEN ServerOnEnd(x) ELSE RoutesOnEnd(x)]
    /\ UNCHANGED <<impl, consumerState, sess, started, cuts, chat, call, wizardVars, speechVars>>

\* Mutant: the error handler goes on into the end handler.
ServerOnErrorThenEnd(x) ==
    [x EXCEPT !.body = ResWrite(ResWrite(@, EventLine("error")), EventLine("end")),
              !.ended = TRUE]

\* stream.on("error", ...)
ServerOnError(x) == [x EXCEPT !.body = ResWrite(@, EventLine("error")), !.ended = TRUE]
RoutesOnError(x) ==
    [x EXCEPT !.body = ResWrite(@, EventLine("error")
                                      \o <<DataPrefix, SP>>
                                      \o JsonStringify(Obj([error |-> Str("stream_error")]))
                                      \o <<NL, NL>>),
              !.ended = TRUE]

OnError(r) ==
    /\ srv[r].up \in {"open", "finalizing"}
    /\ LET x == [srv[r] EXCEPT !.up = "closed",
                      !.emitted = Append(@, [kind |-> "error", arg |-> Undefined])]
       IN srv' = [srv EXCEPT ![r] = IF impl = "server" THEN ServerOnError(x) ELSE RoutesOnError(x)]
    /\ UNCHANGED <<impl, consumerState, sess, started, cuts, chat, call, wizardVars, speechVars>>

\* ------------------------------------------------------------------------
\* The consumer: startStream and stopStream of web/src/App.tsx.
\* ------------------------------------------------------------------------
AbortError == [name |-> "AbortError", message |-> "The user aborted a request."]
NetworkError == [name |-> "TypeError", message |-> "network error"]
StatusError == [name |-> "Error", message |-> "Stream failed with status 400"]

\* Mutant: the catch block records every failure, an abort too.
CatchErrorAlways(err, e) ==
    IF e.message # "" THEN Str(e.message) ELSE Str("Stream error")

\* catch (e) { if (e?.name !== "AbortError") setError(e?.message || "Stream error") }
CatchError(err, e) ==
    IF e.name # "AbortError"
    THEN (IF e.message # "" THEN Str(e.message) ELSE Str("Stream error"))
    ELSE err

Active(s) == sess[s].pc \in {"fetching", "reading"}

\* startStream up to the first await: reset the state, replace the controller,
\* send the request.  `limit` bounds the number of calls.
StartStream(userMessage, limit) ==
    /\ started < limit
    /\ started' = started + 1
    /\ error' = Null
    /\ events' = <<>>
    /\ finalJson' = Null
    /\ transcript' = ""
    /\ controllerRef' = started + 1
    /\ isStreaming' = TRUE
    /\ sess' = [sess EXCEPT ![started + 1] = [NoSession EXCEPT !.pc = "fetching"]]
    \* body: JSON.stringify({userMessage}), read back by express.json()
    /\ srv' = [srv EXCEPT ![started + 1] =
                  [NoRequest EXCEPT !.phase = "pending",
                       !.userMessage = Get(Strip(Obj([userMessage |-> userMessage])),
                                           "userMessage")]]
    /\ UNCHANGED <<impl, cuts, chat, call, wizardVars, speechVars>>

\* Mutant: the status of the response is not looked at.
FetchResolveUnchecked(s) ==
    /\ sess[s].pc = "fetching"
    /\ HeadersSent(srv[s])
    /\ sess' = [sess EXCEPT ![s].pc = "reading"]
    /\ UNCHANGED <<error, isStreaming, controllerRef>>
    /\ UNCHANGED <<impl, srv, events, finalJson, transcript, started, cuts, chat, call, wizardVars, speechVars>>

\* `await fetch(...)` resolves with the response head, then
\* `if (!res.ok || !res.body) throw ...` and the catch and finally blocks.
FetchResolve(s) ==
    /\ sess[s].pc = "fetching"
    /\ HeadersSent(srv[s])
    /\ IF srv[s].status = 200
       THEN /\ sess' = [sess EXCEPT ![s].pc = "reading"]
            /\ UNCHANGED <<error, isStreaming, controllerRef>>
       ELSE /\ sess' = [sess EXCEPT ![s].pc = "failed"]
            /\ error' = CatchError(error, StatusError)
            /\ isStreaming' = FALSE
            /\ controllerRef' = 0
    /\ UNCHANGED <<impl, srv, events, finalJson, transcript, started, cuts, chat, call, wizardVars, speechVars>>

\* The kinds of boundary a chunk that ends at byte `end` makes, given the
\* buffer left after it.
CutKinds(body, end, buffer) ==
    {k \in {"character", "delimiter"} :
        /\ end < Len(body)
        /\ \/ k = "character" /\ body[end].ch = "lead"
           \/ k = "delimiter" /\ buffer # <<>> /\ buffer[Len(buffer)] = NL
                              /\ body[end + 1] = NL}

\* One iteration of `while (true)` with a chunk: the next n bytes.
ReadStep(s, n) ==
    /\ sess[s].pc = "reading"
    /\ n >= 1
    /\ sess[s].pos + n <= Len(srv[s].body)
    /\ LET value == SubSeq(srv[s].body, sess[s].pos + 1, sess[s].pos + n)
           r == ProcessChunk([buffer |-> sess[s].buffer, pending |-> sess[s].pending],
                             [events |-> events, transcript |-> transcript,
                              finalJson |-> finalJson], value)
       IN /\ sess' = [sess EXCEPT ![s].pos = @ + n, ![s].buffer = r.loc.buffer,
                                  ![s].pending = r.loc.pending]
          /\ events' = r.st.events
          /\ transcript' = r.st.transcript
          /\ finalJson' = r.st.finalJson
    /\ UNCHANGED <<impl, srv, error, isStreaming, controllerRef, started, chat, call, wizardVars, speechVars>>

\* The network hands over any non-empty run of the bytes written so far.
ReadChunk(s) ==
    \E n \in 1..Len(srv[s].body) :
        /\ ReadStep(s, n)
        /\ cuts' = cuts \cup CutKinds(srv[s].body, sess[s].pos + n, sess'[s].buffer)

\* Where the write that holds byte pos + 1 ends: the relay's writes end with
\* a blank line, but for the last one.
WriteEnd(body, pos) ==
    LET ends == {e \in (pos + 1)..Len(body) :
                    e = Len(body) \/ (e >= 2 /\ body[e - 1] = NL /\ body[e] = NL)}
    IN CHOOSE e \in ends : \A d \in ends : e <= d

\* The network hands over one res.write of the relay as one chunk.
ReadWrite(s) ==
    /\ sess[s].pos < Len(srv[s].body)
    /\ ReadStep(s, WriteEnd(srv[s].body, sess[s].pos) - sess[s].pos)
    /\ UNCHANGED cuts

\* Mutant: what is left in the buffer is handled as a last frame.
ReadDoneFlushing(s) ==
    /\ sess[s].pc = "reading"
    /\ srv[s].ended
    /\ sess[s].pos = Len(srv[s].body)
    /\ LET st == ProcessFrame([events |-> events, transcript |-> transcript,
                               finalJson |-> finalJson], sess[s].buffer)
       IN /\ events' = st.events
          /\ transcript' = st.transcript
          /\ finalJson' = st.finalJson
    /\ sess' = [sess EXCEPT ![s].pc = "done"]
    /\ isStreaming' = FALSE
    /\ controllerRef' = 0
    /\ UNCHANGED <<impl, srv, error, started, cuts, chat, call, wizardVars, speechVars>>

\* `if (done) break`, then the finally block.
ReadDone(s) ==
    /\ sess[s].pc = "reading"
    /\ srv[s].ended
    /\ sess[s].pos = Len(srv[s].body)
    /\ sess' = [sess EXCEPT ![s].pc = "done"]
    /\ isStreaming' = FALSE
    /\ controllerRef' = 0
    /\ UNCHANGED <<impl, srv, error, events, finalJson, transcript, started, cuts, chat, call, wizardVars, speechVars>>

\* The connection fails: fetch or reader.read() rejects with a TypeError.
TransportError(s) ==
    /\ Active(s)
    /\ sess' = [sess EXCEPT ![s].pc = "failed"]
    /\ error' = CatchError(error, NetworkError)
    /\ isStreaming' = FALSE
    /\ controllerRef' = 0
    /\ UNCHANGED <<impl, srv, events, finalJson, transcript, started, cuts, chat, call, wizardVars, speechVars>>

\* stopStream, with the rejection it causes: abort() rejects the pending
\* fetch or read of the session whose controller is held, and that session's
\* catch and finally blocks run before any other task.
StopStream ==
    /\ IF controllerRef # 0 /\ Active(controllerRef)
       THEN /\ sess' = [sess EXCEPT ![controllerRef].pc = "cancelled"]
            /\ error' = CatchError(error, AbortError)
       ELSE UNCHANGED <<sess, error>>
    /\ controllerRef' = 0
    /\ isStreaming' = FALSE
    /\ UNCHANGED <<impl, srv, events, finalJson, transcript, started, cuts, chat, call, wizardVars, speechVars>>

\* ------------------------------------------------------------------------
\* The system end to end: one consumer session, the relay and the upstream
\* session behind it, the network cutting the response at any byte.
\* ------------------------------------------------------------------------
UserMessages == {Undefined, Str(""), Num(7), Str("hi")}
Msgs == {Obj([delta |-> Str("a")]), Obj([delta |-> Str("U+00E9")])}
FinalMsgs ==
    {Obj([output_text |-> Str(VisaText)]),
     Obj([output_text |-> Str(PartialText)]),
     Obj([output_text |-> Str("not json")]),
     Obj([output |-> Arr(<<Obj([content |-> Arr(<<Obj([type |-> Str("output_json"),
                                                       json |-> VisaFull])>>)])>>)])}

InitConsumer ==
    /\ error = Null
    /\ events = <<>>
    /\ finalJson = Null
    /\ transcript = ""
    /\ isStreaming = FALSE
    /\ controllerRef = 0
    /\ sess = [s \in Requests |-> NoSession]
    /\ started = 0
    /\ cuts = {}
    /\ InitWizard

Init ==
    /\ impl \in {"server", "routes"}
    /\ srv = [r \in Requests |-> NoRequest]
    /\ InitConsumer
    /\ chat = NoChat
    /\ call = NoCall

Next ==
    \/ \E um \in UserMessages : StartStream(um, 1)
    \/ \E r \in Requests : HandleRequest(r)
    \/ \E r \in Requests, msg \in Msgs : OnMessage(r, msg)
    \/ \E r \in Requests, fm \in FinalMsgs : OnFinalMessage(r, fm)
    \/ \E r \in Requests : OnEnd(r)
    \/ \E r \in Requests : OnError(r)
    \/ \E s \in Requests : FetchResolve(s)
    \/ \E s \in Requests : ReadChunk(s)
    \/ \E s \in Requests : ReadDone(s)

Spec == Init /\ [][Next]_vars

\* ------------------------------------------------------------------------
\* The consumer's sessions: startStream and stopStream called in any order,
\* the connection failing at any time.  The relay (server.ts) never learns
\* what the consumer does with the response, so its handlers run here in one
\* step per request, for one of the upstream session's scripts, and the
\* network then hands the response over write by write.
\* ------------------------------------------------------------------------
SessionUserMessages == {Str(""), Str("hi")}
SessionMsg == Obj([delta |-> Str("a")])
SessionFinalMsg == Obj([output_text |-> Str(VisaText)])
SessionScripts ==
    {<<[kind |-> "message", arg |-> SessionMsg],
       [kind |-> "finalMessage", arg |-> SessionFinalMsg],
       [kind |-> "end", arg |-> Undefined]>>,
     <<[kind |-> "message", arg |-> SessionMsg],
       [kind |-> "error", arg |-> Undefined]>>}

\* The server.ts handler of the upstream event e
ServerOn(x, e) ==
    LET y == [x EXCEPT !.emitted = Append(@, e)]
    IN CASE e.kind = "message" -> ServerOnMessage(y, e.arg)
         [] e.kind = "finalMessage" -> ServerOnFinalMessage([y EXCEPT !.up = "finalizing"], e.arg)
         [] e.kind = "end" -> ServerOnEnd([y EXCEPT !.up = "closed"])
         [] e.kind = "error" -> ServerOnError([y EXCEPT !.up = "closed"])

RECURSIVE ServerRun(_, _)
ServerRun(x, script) ==
    IF script = <<>> \/ x.up = "none" THEN x
    ELSE ServerRun(ServerOn(x, Head(script)), Tail(script))

\* The request is handled and the upstream session runs its script.
RelayRun(r, script) ==
    /\ srv[r].phase = "pending"
    /\ srv' = [srv EXCEPT ![r] = ServerRun(ServerHandleRequest(@), script)]
    /\ UNCHANGED <<impl, consumerState, sess, started, cuts, chat, call, wizardVars, speechVars>>

InitSessions ==
    /\ impl = "server"
    /\ srv = [r \in Requests |-> NoRequest]
    /\ InitConsumer
    /\ chat = NoChat
    /\ call = NoCall

NextSessions ==
    \/ \E um \in SessionUserMessages : StartStream(um, MaxSessions)
    \/ StopStream
    \/ \E r \in Requests, script \in SessionScripts : RelayRun(r, script)
    \/ \E s \in Requests : FetchResolve(s)
    \/ \E s \in Requests : ReadWrite(s)
    \/ \E s \in Requests : ReadDone(s)
    \/ \E s \in Requests : TransportError(s)

SpecSessions == InitSessions /\ [][NextSessions]_vars

\* ------------------------------------------------------------------------
\* The read loop alone, on any response an SSE server may send: up to
\* MaxFrames pieces, complete and cut at any byte by the network.
\* ------------------------------------------------------------------------
MessageEvent(payload) == Obj([event |-> Str("message"), payload |-> payload])
FinalEvent(data) == Obj([event |-> Str("final"), data |-> data])

FinalWithPayload ==
    Obj([event |-> Str("final"), data |-> VisaFull, payload |-> Obj([delta |-> Str("f")])])

UnterminatedFrame ==
    <<DataPrefix, SP>> \o JsonStringify(MessageEvent(Obj([delta |-> Str("e")]))) \o <<NL>>

Pieces ==
    {DataFrame(MessageEvent(Obj([delta |-> Str("a")]))),
     DataFrame(MessageEvent(Obj([delta |-> Str("U+00E9")]))),
     \* a message event whose payload holds no text
     DataFrame(MessageEvent(EmptyObj)),
     DataFrame(FinalEvent(VisaFull)),
     DataFrame(FinalEvent(VisaPartial)),
     DataFrame(FinalEvent(Null)),
     \* a final event with no data member
     DataFrame(Obj([event |-> Str("final")])),
     \* a final event that also carries a payload with a text
     DataFrame(FinalWithPayload),
     \* no space after "data:"
     <<DataPrefix>> \o JsonStringify(MessageEvent(Obj([text |-> Str("b")]))) \o <<NL, NL>>,
     \* a data frame whose JSON is cut short
     <<DataPrefix, SP, U("{"), J(MessageEvent(Obj([delta |-> Str("c")]))), NL, NL>>,
     <<U("event: end"), NL, NL>>,
     <<U("event: end"), NL>>,
     \* a data frame with one newline after it, not a blank line
     UnterminatedFrame,
     \* a frame of JSON with no "data:" before it
     JsonStringify(MessageEvent(Obj([delta |-> Str("d")]))) \o <<NL, NL>>,
     <<NL>>}

RECURSIVE Streams(_)
Streams(n) ==
    IF n = 0 THEN {<<>>}
    ELSE Streams(n - 1) \cup {p \o t : p \in Pieces, t \in Streams(n - 1)}

InitParse ==
    /\ impl = "server"
    /\ \E text \in Streams(MaxFrames) :
          srv = [r \in Requests |->
                    IF r = 1
                    THEN [NoRequest EXCEPT !.phase = "handled", !.userMessage = Str("hi"),
                              !.status = 200, !.sse = TRUE, !.ended = TRUE,
                              !.body = Utf8Encode(text)]
                    ELSE NoRequest]
    /\ error = Null
    /\ events = <<>>
    /\ finalJson = Null
    /\ transcript = ""
    /\ isStreaming = TRUE
    /\ controllerRef = 1
    /\ sess = [s \in Requests |-> IF s = 1 THEN [NoSession EXCEPT !.pc = "reading"]
                                  ELSE NoSession]
    /\ started = 1
    /\ cuts = {}
    /\ chat = NoChat
    /\ call = NoCall
    /\ InitWizard

NextParse ==
    \/ \E s \in Requests : ReadChunk(s)
    \/ \E s \in Requests : ReadDone(s)

SpecParse == InitParse /\ [][NextParse]_vars

\* ------------------------------------------------------------------------
\* The non-streaming endpoint: app.post("/api/chat") of server.ts and
\* chatHandler of routes/chat.ts, for one request and one upstream response.
\* ------------------------------------------------------------------------
TextOptions ==
    {<<>>, [output_text |-> Str("")], [output_text |-> Str("not json")],
     [output_text |-> Str(VisaText)], [output_text |-> Str(PartialText)],
     [output_text |-> Str("null")]}
OutputOptions ==
    {<<>>,
     [output |-> Arr(<<>>)],
     [output |-> Arr(<<Obj([content |-> Arr(<<>>)])>>)],
     [output |-> Arr(<<Obj([content |-> Arr(<<Obj([type |-> Str("output_json"),
                                                   json |-> VisaFull])>>)])>>)],
     [output |-> Arr(<<Obj([content |-> Arr(<<Obj([type |-> Str("output_text"),
                                                   text |-> Str("not json")])>>)])>>)]}
ChatResponses == {Obj(t @@ o) : t \in TextOptions, o \in OutputOptions}

\* server.ts 84-115
ServerChat(userMessage, r) ==
    IF ~Truthy(userMessage) \/ ~IsString(userMessage)
    THEN [status |-> 400, escaped |-> FALSE,
          body |-> Obj([error |-> Str("bad_request"),
                        message |-> Str("userMessage (string) is required")])]
    ELSE [status |-> 200, escaped |-> FALSE,
          body |-> Strip(Obj([data |-> extractJsonFromResponse(r)]))]

\* routes/chat.ts: an exception thrown in the async handler escapes it
Escaped == [status |-> 0, escaped |-> TRUE, body |-> Undefined]
RoutesChat(userMessage, r) ==
    LET output == Get(r, "output")
        first == OptFirst(output)
        content == Get(first, "content")
        \* (r as any).output ? (r as any).output[0].content[0] : null
        json == IF Truthy(output) THEN OptFirst(content) ELSE Null
        text == Get(r, "output_text")
        parsed == IF IsString(text) THEN JsonParseString(text.s) ELSE Thrown
    IN IF Truthy(output) /\ (IsNullish(first) \/ IsNullish(content)) THEN Escaped
       ELSE IF OptGet(json, "type") = Str("output_json")
       THEN [status |-> 200, escaped |-> FALSE, body |-> Strip(Obj([data |-> Get(json, "json")]))]
       ELSE IF Truthy(text)
       THEN (IF parsed.ok
             THEN [status |-> 200, escaped |-> FALSE, body |-> Strip(Obj([data |-> parsed.v]))]
             ELSE Escaped)
       ELSE [status |-> 200, escaped |-> FALSE, body |-> Obj([data |-> Null])]

ChatRequest(userMessage, r) ==
    /\ chat.phase = "none"
    /\ chat' = [phase |-> "done", userMessage |-> userMessage, r |-> r,
                res |-> IF impl = "server" THEN ServerChat(userMessage, r)
                        ELSE RoutesChat(userMessage, r)]
    /\ UNCHANGED <<impl, srv, consumerState, sess, started, cuts, call, wizardVars, speechVars>>

InitChat == Init

NextChat == \E um \in UserMessages, r \in ChatResponses : ChatRequest(um, r)

SpecChat == InitChat /\ [][NextChat]_vars

\* ------------------------------------------------------------------------
\* Cancellation seen from the relay: one consumer session with stopStream,
\* the relay of server.ts handling the upstream events one by one, the
\* network handing the response over write by write.
\* ------------------------------------------------------------------------
InitCancel == InitSessions

NextCancel ==
    \/ StartStream(Str("hi"), 1)
    \/ StopStream
    \/ \E r \in Requests : HandleRequest(r)
    \/ \E r \in Requests, msg \in Msgs : OnMessage(r, msg)
    \/ \E r \in Requests, fm \in FinalMsgs : OnFinalMessage(r, fm)
    \/ \E r \in Requests : OnEnd(r)
    \/ \E r \in Requests : OnError(r)
    \/ \E s \in Requests : FetchResolve(s)
    \/ \E s \in Requests : ReadWrite(s)
    \/ \E s \in Requests : ReadDone(s)

SpecCancel == InitCancel /\ [][NextCancel]_vars

\* ------------------------------------------------------------------------
\* The helper functions called on their own, with any argument.
\* ------------------------------------------------------------------------
DeltaOptions == {<<>>, [delta |-> Str("ab")], [delta |-> Str("")], [delta |-> Num(1)]}
TextFieldOptions == {<<>>, [text |-> Str("cd")], [text |-> Null]}
DataOptions ==
    {<<>>, [data |-> Obj([text |-> Str("ef")])], [data |-> Obj([text |-> Num(2)])],
     [data |-> Str("x")], [data |-> Null]}
ContentOptions ==
    {Arr(<<Obj([text |-> Str("g")]), Obj([text |-> Str("h")])>>),
     Arr(<<Obj([text |-> Num(1)]), Null, Obj([text |-> Str("h")]), Obj([text |-> Str("")])>>),
     Arr(<<Obj([text |-> Str("")])>>),
     Str("gh")}
ResponseOptions ==
    {<<>>, [response |-> Null], [response |-> Obj([output |-> Arr(<<>>)])]}
    \cup {[response |-> Obj([output |-> Arr(<<Obj([content |-> c])>>)])] : c \in ContentOptions}
Payloads ==
    {Obj(d @@ t @@ a @@ r) : d \in DeltaOptions, t \in TextFieldOptions,
                             a \in DataOptions, r \in ResponseOptions}
    \cup {Null, Undefined, Str("s"), Str(""), Num(0), Num(3), Arr(<<>>)}

\* The values extractTextFromPayload reads a property of with a plain `.`
\* outside its try block: such a read throws a TypeError on null and on
\* undefined.
PlainReads(payload) ==
    IF ~Truthy(payload) \/ ~IsObjectType(payload) THEN {}
    ELSE {payload}
         \cup (IF /\ ~IsString(Get(payload, "delta"))
                  /\ ~IsString(Get(payload, "text"))
                  /\ Truthy(Get(payload, "data"))
               THEN {Get(payload, "data")}
               ELSE {})

CallExtractText ==
    /\ call.phase = "called"
    /\ call.fn = "extractTextFromPayload"
    /\ call' = [phase |-> "returned", fn |-> call.fn, arg |-> call.arg,
                outcome |-> IF \E v \in PlainReads(call.arg) : IsNullish(v)
                            THEN Thrown
                            ELSE Returned(extractTextFromPayload(call.arg))]
    /\ UNCHANGED <<impl, srv, consumerState, sess, started, cuts, chat, wizardVars, speechVars>>

\* What extractJsonFromResponse may be given: the responses of the
\* non-streaming endpoint and values that are not objects.
Responses == ChatResponses \cup {Null, Undefined, Str("s"), Num(1), Arr(<<>>)}

\* The whole body of extractJsonFromResponse is inside try { } catch { }, so
\* every call returns.
CallExtractJson ==
    /\ call.phase = "called"
    /\ call.fn = "extractJsonFromResponse"
    /\ call' = [phase |-> "returned", fn |-> call.fn, arg |-> call.arg,
                outcome |-> Returned(extractJsonFromResponse(call.arg))]
    /\ UNCHANGED <<impl, srv, consumerState, sess, started, cuts, chat, wizardVars, speechVars>>

InitCalls ==
    /\ impl = "server"
    /\ srv = [r \in Requests |-> NoRequest]
    /\ InitConsumer
    /\ chat = NoChat
    /\ call \in {[phase |-> "called", fn |-> "extractTextFromPayload", arg |-> p] :
                    p \in Payloads}
              \cup {[phase |-> "called", fn |-> "extractJsonFromResponse", arg |-> r] :
                       r \in Responses}

NextCalls == CallExtractText \/ CallExtractJson

SpecCalls == InitCalls /\ [][NextCalls]_vars

\* ------------------------------------------------------------------------
\* The wizard: the user edits answers and presses the buttons, the requests
\* to /api/chat and /api/tts settle at any time.
\* ------------------------------------------------------------------------
AllAnswerValues == UNION {AnswerValues(questions[i].key) : i \in DOMAIN questions}

NextWizard ==
    \/ \E value \in AllAnswerValues : EditAnswer(value)
    \/ NextButton
    \/ BackButton
    \/ SubmitButton
    \/ \E o \in SubmitOutcomes : submitSettle(o)
    \/ \E s \in speaks, outcome \in SpeakOutcomes, blocked \in BOOLEAN :
          speakSettle(s, outcome, blocked)

SpecWizard == InitSessions /\ [][NextWizard]_vars

\* ------------------------------------------------------------------------
\* submitIntake as a function of the state it is called in: any step, any
\* answers, no request in flight.
\* ------------------------------------------------------------------------
InitSubmit ==
    /\ impl = "server"
    /\ srv = [r \in Requests |-> NoRequest]
    /\ error = Null
    /\ events = <<>>
    /\ finalJson = Null
    /\ transcript = ""
    /\ isStreaming = FALSE
    /\ controllerRef = 0
    /\ sess = [s \in Requests |-> NoSession]
    /\ started = 0
    /\ cuts = {}
    /\ chat = NoChat
    /\ call = NoCall
    /\ currentStep \in 0..totalSteps
    /\ answers \in [DOMAIN initialAnswers -> AllAnswerValues]
    /\ \A k \in DOMAIN answers : answers[k] \in AnswerValues(k)
    /\ wizardError \in {Null, Str("Use format YYYY-MM-DD.")}
    /\ wizardLoading = FALSE
    /\ wizardFinalJson \in {Null, VisaFull}
    /\ submit = NoSubmit
    /\ speaks = IF isReviewStep(currentStep) THEN {}
                ELSE {[q |-> QuestionAt(currentStep).key, cancelled |-> FALSE]}
    /\ questionAudioRef = NoAudio
    /\ playing = {}

\* a call while no request is in flight
SubmitCall == ~wizardLoading /\ submitIntake

NextSubmit ==
    \/ SubmitCall
    \/ \E o \in SubmitOutcomes : submitSettle(o)

SpecSubmit == InitSubmit /\ [][NextSubmit]_vars

\* ========================================================================
\* Properties.
\* ========================================================================
FreshLoop == [buffer |-> <<>>, pending |-> <<>>]
FreshState == [events |-> <<>>, transcript |-> "", finalJson |-> Null]
\* The read loop's result when `bytes` arrive as one chunk.
OneChunk(bytes) == ProcessChunk(FreshLoop, FreshState, bytes)

\* C1 (SpecParse): however the network cuts the response into chunks, after
\* the bytes read so far the event log, the transcript, the final result and
\* the buffer are those of the read loop given the same bytes as one chunk;
\* in particular once the loop has ended on the whole stream.
C1_ChunkingInvariance ==
    \A s \in Requests :
        sess[s].pc \in {"reading", "done"} =>
            LET one == OneChunk(SubSeq(srv[s].body, 1, sess[s].pos))
            IN /\ events = one.st.events
               /\ transcript = one.st.transcript
               /\ finalJson = one.st.finalJson
               /\ sess[s].buffer = one.loc.buffer

\* A stream of a message frame with a two-byte character and a final frame,
\* read to its end with a cut inside the character and a cut between the two
\* newlines of a delimiter.
C1_Witness ==
    /\ sess[1].pc = "done"
    /\ cuts = {"character", "delimiter"}
    /\ Len(events) = 2
    /\ transcript = "U+00E9"
    /\ finalJson = VisaFull

\* The JSON documents of the data frames (`data: {...}`) of a response body,
\* in order.
DataDocs(body) ==
    LET text == Decode(<<>>, body).out
        at == {i \in 1..(Len(text) - 3) : text[i] = DataPrefix /\ text[i + 3].ch = "json"}
        units == SelectSeq([i \in 1..Len(text) |-> IF i > 3 /\ (i - 3) \in at
                                                   THEN text[i] ELSE NL],
                           LAMBDA u : u.ch = "json")
    IN [i \in 1..Len(units) |-> units[i].doc]

\* The documents server.ts writes for the upstream events emitted.
ExpectedDocs(emitted) ==
    LET framed == SelectSeq(emitted, LAMBDA e : e.kind \in {"message", "finalMessage"})
    IN [i \in 1..Len(framed) |->
           IF framed[i].kind = "message" THEN Strip(MessageEvent(framed[i].arg))
           ELSE Strip(FinalEvent(extractJsonFromResponse(framed[i].arg)))]

EndsWith(body, tail) ==
    /\ Len(body) >= Len(tail)
    /\ SubSeq(body, Len(body) - Len(tail) + 1, Len(body)) = tail

\* C2 (Spec): the data frames server.ts has written are the frames of the
\* upstream events emitted so far, in emission order; no message frame
\* follows a final frame; and the end marker comes right after the final
\* frame, which is the last data frame.
C2_WriteOrder ==
    impl = "server" =>
        \A r \in Requests :
            LET docs == DataDocs(srv[r].body)
            IN /\ docs = ExpectedDocs(srv[r].emitted)
               /\ \A i, j \in 1..Len(docs) :
                      (i < j /\ Get(docs[i], "event") = Str("final"))
                          => Get(docs[j], "event") # Str("message")
               /\ (srv[r].emitted # <<>> /\ srv[r].emitted[Len(srv[r].emitted)].kind = "end")
                      => /\ Get(docs[Len(docs)], "event") = Str("final")
                         /\ EndsWith(srv[r].body,
                                     Utf8Encode(DataFrame(docs[Len(docs)]) \o EventLine("end")))

C2_Witness ==
    /\ impl = "server"
    /\ Len(srv[1].emitted) = 4
    /\ srv[1].emitted[1].arg # srv[1].emitted[2].arg
    /\ srv[1].emitted[3].kind = "finalMessage"
    /\ srv[1].emitted[4].kind = "end"
    /\ srv[1].ended

LastEmitted(r) == srv[r].emitted[Len(srv[r].emitted)]
UpstreamFailed(r) == srv[r].emitted # <<>> /\ LastEmitted(r).kind = "error"

\* C3 (Spec): once the upstream session has emitted error, the response is
\* closed and ends with the line `event: error` alone, with no data line.
C3_ErrorEventHasNoData ==
    \A r \in Requests :
        UpstreamFailed(r) =>
            /\ srv[r].ended
            /\ EndsWith(srv[r].body, Utf8Encode(EventLine("error")))
            /\ \A i \in 1..Len(srv[r].body) :
                   srv[r].body[i] = U("event: error") =>
                       \A j \in (i + 1)..Len(srv[r].body) : srv[r].body[j] # DataPrefix

ValidUserMessage(v) == IsString(v) /\ v.s # ""

\* C4 (Spec): a streaming request whose userMessage is missing, empty or not
\* a string is answered 400 with no upstream session opened, no SSE header
\* set and no SSE frame written.
C4_BadRequestOpensNoStream ==
    \A r \in Requests :
        (srv[r].phase = "handled" /\ ~ValidUserMessage(srv[r].userMessage)) =>
            /\ srv[r].status = 400
            /\ srv[r].up = "none"
            /\ srv[r].emitted = <<>>
            /\ ~srv[r].sse
            /\ \A i \in 1..Len(srv[r].body) : srv[r].body[i] # DataPrefix

UnparseableText(r) ==
    IsString(Get(r, "output_text")) /\ ~JsonParseString(Get(r, "output_text").s).ok
HasOutputJson(r) ==
    OptGet(OptFirst(OptGet(OptFirst(OptGet(r, "output")), "content")), "type")
        = Str("output_json")

\* C5 (SpecChat): when the upstream response's output_text is not JSON and
\* the response holds no output_json content, the endpoint of server.ts
\* answers {"data": null} and no exception escapes the handler.
C5_UnparseableGivesNull ==
    (/\ impl = "server"
     /\ chat.phase = "done"
     /\ ValidUserMessage(chat.userMessage)
     /\ UnparseableText(chat.r)
     /\ ~HasOutputJson(chat.r)) =>
        /\ ~chat.res.escaped
        /\ chat.res.status = 200
        /\ chat.res.body = Obj([data |-> Null])

\* C6 (Spec): the consumer's final result is null or an object that conforms
\* to VisaIntakeSchema.
C6_FinalResultConforms == finalJson = Null \/ VisaIntakeSchema(finalJson)

\* C7 (SpecSessions): at most one consumer session is active (awaiting its
\* fetch or in its read loop): startStream aborts the session before.
C7_OneActiveSession == Cardinality({s \in Requests : Active(s)}) <= 1

\* C8 (SpecSessions): stopStream, with the abort it raises in the session it
\* cancels, leaves events, transcript, finalJson and error as they were, and
\* error is null after it has cancelled a session.
C8_CancelKeepsState ==
    [][StopStream =>
          /\ events' = events
          /\ transcript' = transcript
          /\ finalJson' = finalJson
          /\ error' = error
          /\ (controllerRef # 0 => error' = Null)]_vars

\* A session cancelled after it had logged events and text.
C8_Witness ==
    \E s \in Requests :
        /\ sess[s].pc = "cancelled"
        /\ sess[s].pos > 0
        /\ Len(events) >= 2
        /\ transcript # ""
        /\ finalJson # Null
        /\ error = Null
        /\ ~isStreaming

\* C9 (Spec): when the upstream session behind the relay of server.ts has
\* failed and the consumer's session has read the response to its end, the
\* consumer holds an error message.
C9_UpstreamFailureSurfaces ==
    \A s \in Requests :
        (impl = "server" /\ sess[s].pc = "done" /\ UpstreamFailed(s)) => error # Null

RECURSIVE ConcatDeltas(_)
ConcatDeltas(emitted) ==
    IF emitted = <<>> THEN ""
    ELSE (IF Head(emitted).kind = "message" THEN Head(emitted).arg.f.delta.s ELSE "")
             \o ConcatDeltas(Tail(emitted))

FinalArg(emitted) ==
    SelectSeq(emitted, LAMBDA e : e.kind = "finalMessage")[1].arg

\* C10 (Spec): with the relay of server.ts, when the upstream session emitted
\* n messages with deltas d1..dn, the final message and end, and the consumer
\* session has ended, the transcript is d1..dn concatenated, the final result
\* is the value extracted from the final message, n + 1 events are logged and
\* error is null.
C10_EndToEnd ==
    \A s \in Requests :
        (/\ impl = "server"
         /\ sess[s].pc = "done"
         /\ srv[s].emitted # <<>>
         /\ LastEmitted(s).kind = "end") =>
            /\ transcript = ConcatDeltas(srv[s].emitted)
            /\ finalJson = extractJsonFromResponse(FinalArg(srv[s].emitted))
            /\ Len(events) = MessagesEmitted(srv[s]) + 1
            /\ error = Null

\* The scenario of the specification: two messages, the final message, end,
\* read with cuts inside a character and inside a delimiter.
C10_Witness ==
    /\ impl = "server"
    /\ sess[1].pc = "done"
    /\ MessagesEmitted(srv[1]) = 2
    /\ transcript = "a" \o "U+00E9"
    /\ finalJson = VisaFull
    /\ Len(events) = 3
    /\ cuts = {"character", "delimiter"}

\* C11 (Spec): each step in which the upstream session emits a message event
\* adds to the response exactly one frame, `data: <json>` and a blank line
\* with no event-name line, whose JSON is {event: "message", payload: <the
\* event>}.
C11_MessageFrameEnvelope ==
    [][\A r \in Requests :
          (/\ Len(srv'[r].emitted) = Len(srv[r].emitted) + 1
           /\ srv'[r].emitted[Len(srv'[r].emitted)].kind = "message") =>
              srv'[r].body =
                  srv[r].body \o Utf8Encode(DataFrame(MessageEvent(
                      srv'[r].emitted[Len(srv'[r].emitted)].arg)))]_vars

\* The final events of an event log, in order.
FinalEvents(log) == SelectSeq(log, LAMBDA e : Get(e, "event") = Str("final"))

\* C12 (SpecParse): the final result is null when no final event was read or
\* when the last final event read has data null or no data member, and
\* otherwise exactly the data of the last final event read: nothing of an
\* earlier final result is kept.
C12_FinalLastWriteWins ==
    LET finals == FinalEvents(events)
        last == finals[Len(finals)]
    IN finalJson =
           IF finals = <<>> THEN Null
           ELSE IF "data" \notin DOMAIN last.f \/ last.f.data = Null THEN Null
           ELSE last.f.data

\* A complete object was the final result and a later final event replaced
\* it with an object that has one member only.
C12_Witness ==
    /\ sess[1].pc = "done"
    /\ Len(FinalEvents(events)) = 2
    /\ Get(events[1], "data") = VisaFull
    /\ Get(events[2], "data") = VisaPartial
    /\ finalJson = VisaPartial

\* The complete frames that a read of the bytes after `pos` up to `end`
\* hands to the loop body of session s.
FramesRead(s, end) ==
    LET value == SubSeq(srv[s].body, sess[s].pos + 1, end)
        parts == Split(sess[s].buffer \o Decode(sess[s].pending, value).out)
    IN SubSeq(parts, 1, Len(parts) - 1)

\* C13 (SpecParse): a read whose complete frames all have a trimmed text that
\* does not begin with "data:" appends nothing to the event log and leaves
\* the transcript and the final result as they were.
C13_NonDataFrameIgnored ==
    [][\A s \in Requests :
          (/\ sess[s].pc = "reading"
           /\ sess'[s].pos > sess[s].pos
           /\ FramesRead(s, sess'[s].pos) # <<>>
           /\ \A i \in 1..Len(FramesRead(s, sess'[s].pos)) :
                  LET line == Trim(FramesRead(s, sess'[s].pos)[i])
                  IN line = <<>> \/ Head(line) # DataPrefix) =>
              /\ events' = events
              /\ transcript' = transcript
              /\ finalJson' = finalJson]_vars

\* A message frame was applied and the bare `event: end` frame after it was
\* read to the end of the response.
C13_Witness ==
    /\ sess[1].pc = "done"
    /\ srv[1].body = Utf8Encode(DataFrame(MessageEvent(Obj([delta |-> Str("a")])))
                                \o <<U("event: end"), NL, NL>>)
    /\ Len(events) = 1
    /\ transcript = "a"
    /\ sess[1].buffer = <<>>

\* The cut-short data frame of Pieces, as its bytes.
CutShortFrame ==
    <<DataPrefix, SP, U("{"), J(MessageEvent(Obj([delta |-> Str("c")]))), NL, NL>>

\* The text is one JSON literal, white space around it allowed.
IsJsonText(text) ==
    LET t == Trim(text)
    IN \/ Len(t) = 3 /\ t[1] = U("{") /\ t[2].ch = "json" /\ t[3] = U("}")
       \/ Len(t) = 1 /\ t[1].ch = "json"

\* A data frame whose body is not valid JSON.
MalformedDataFrame(chunk) ==
    LET line == Trim(chunk)
    IN /\ line # <<>>
       /\ Head(line) = DataPrefix
       /\ ~IsJsonText(RemoveDataPrefix(line))

\* The complete frames in the bytes session s has read so far.
FramesSoFar(s) ==
    LET parts == Split(Decode(<<>>, SubSeq(srv[s].body, 1, sess[s].pos)).out)
    IN SubSeq(parts, 1, Len(parts) - 1)

\* C14 (SpecParse): the event log, the transcript and the final result are
\* those of the same stream with every data frame of invalid JSON taken out,
\* so such a frame changes nothing and the frames after it are still applied;
\* and no error is recorded.
C14_MalformedFrameDropped ==
    \A s \in Requests :
        sess[s].pc \in {"reading", "done"} =>
            LET wellFormed == SelectSeq(FramesSoFar(s), LAMBDA c : ~MalformedDataFrame(c))
                st == ProcessFrames(FreshState, wellFormed)
            IN /\ events = st.events
               /\ transcript = st.transcript
               /\ finalJson = st.finalJson
               /\ error = Null

\* A data frame of cut-short JSON was read, and the message frame after it
\* was logged and applied.
C14_Witness ==
    /\ sess[1].pc = "done"
    /\ srv[1].body = Utf8Encode(CutShortFrame
                                \o DataFrame(MessageEvent(Obj([delta |-> Str("a")]))))
    /\ events = <<MessageEvent(Obj([delta |-> Str("a")]))>>
    /\ transcript = "a"
    /\ error = Null

\* v is an object with a member k that is a string.
HasStringMember(v, k) == v.ty = "object" /\ k \in DOMAIN v.f /\ v.f[k].ty = "string"

\* response.output[0].content of the payload when it is an array, else <<>>.
ContentItems(p) ==
    IF /\ p.ty = "object" /\ "response" \in DOMAIN p.f
       /\ p.f.response.ty = "object" /\ "output" \in DOMAIN p.f.response.f
       /\ p.f.response.f.output.ty = "array" /\ Len(p.f.response.f.output.a) >= 1
       /\ p.f.response.f.output.a[1].ty = "object"
       /\ "content" \in DOMAIN p.f.response.f.output.a[1].f
       /\ p.f.response.f.output.a[1].f.content.ty = "array"
    THEN p.f.response.f.output.a[1].f.content.a
    ELSE <<>>

RECURSIVE ConcatStringTexts(_)
ConcatStringTexts(items) ==
    IF items = <<>> THEN ""
    ELSE (IF HasStringMember(Head(items), "text") THEN Head(items).f.text.s ELSE "")
             \o ConcatStringTexts(Tail(items))

\* C15 (SpecCalls): a call of extractTextFromPayload returns, for every
\* payload: its string delta; else its string text; else its string
\* data.text; else the non-empty concatenation in array order of the string
\* texts of response.output[0].content; else "".  It does not throw.
C15_ExtractTextPriority ==
    (call.phase = "returned" /\ call.fn = "extractTextFromPayload") =>
        LET p == call.arg
        IN /\ call.outcome.ok
           /\ call.outcome.v =
                  IF HasStringMember(p, "delta") THEN p.f.delta.s
                  ELSE IF HasStringMember(p, "text") THEN p.f.text.s
                  ELSE IF p.ty = "object" /\ "data" \in DOMAIN p.f
                          /\ HasStringMember(p.f.data, "text")
                       THEN p.f.data.f.text.s
                  ELSE ConcatStringTexts(ContentItems(p))

\* The call on {response: {output: [{content: [{text: "g"}, {text: "h"}]}]}}
\* returned "gh".
C15_Witness ==
    /\ call.phase = "returned"
    /\ call.fn = "extractTextFromPayload"
    /\ call.arg = Obj([response |-> Obj([output |-> Arr(<<Obj([content |->
                      Arr(<<Obj([text |-> Str("g")]), Obj([text |-> Str("h")])>>)])>>)])])
    /\ call.outcome = Returned("gh")

\* Step (a): the response has a non-empty output_text that is a JSON text.
TextStepSucceeds(r) ==
    /\ r.ty = "object"
    /\ "output_text" \in DOMAIN r.f
    /\ r.f.output_text.ty = "string"
    /\ r.f.output_text.s \in DOMAIN JsonTexts

\* C16 (SpecCalls): a call of extractJsonFromResponse returns, for every
\* response: (a) the value its output_text denotes when that parses as JSON;
\* else (b) the json of output[0].content[0] when its type is output_json;
\* else (c) the parse of the brace-delimited text that ends the serialized
\* response, which for an object is the response as serialized; else null.
\* It does not throw.
C16_ExtractJsonOrder ==
    (call.phase = "returned" /\ call.fn = "extractJsonFromResponse") =>
        LET r == call.arg
        IN /\ call.outcome.ok
           /\ call.outcome.v =
                  IF TextStepSucceeds(r) THEN JsonTexts[r.f.output_text.s]
                  ELSE IF r.ty = "object" /\ HasOutputJson(r)
                       THEN r.f.output.a[1].f.content.a[1].f.json
                  ELSE IF r.ty = "object" THEN Strip(r)
                  ELSE Null

\* The response holds a parseable output_text and an output_json content
\* with another value; the value of the text was returned.
C16_Witness ==
    /\ call.phase = "returned"
    /\ call.fn = "extractJsonFromResponse"
    /\ call.arg = Obj([output_text |-> Str(PartialText),
                       output |-> Arr(<<Obj([content |-> Arr(<<Obj([type |-> Str("output_json"),
                                                                    json |-> VisaFull])>>)])>>)])
    /\ call.outcome = Returned(VisaPartial)

\* C17 (SpecSessions): whenever the read loop of a session is active,
\* controllerRef.current is that session's controller, the one stopStream
\* aborts.
C17_ActiveLoopHoldsHandle ==
    \A s \in Requests : sess[s].pc = "reading" => controllerRef = s

\* C18 (SpecCancel): once the consumer has aborted a request whose response
\* it was reading, the relay handles no further upstream event for it and
\* writes nothing more to its response.
C18_AbortEndsRelaySession ==
    [][\A r \in Requests :
          (sess[r].pc = "cancelled" /\ sess[r].pos > 0) =>
              /\ srv'[r].emitted = srv[r].emitted
              /\ srv'[r].body = srv[r].body]_vars

\* The number of terminal markers in a response body.
TerminalMarkers(body) ==
    Cardinality({i \in 1..Len(body) : body[i] \in {U("event: end"), U("event: error")}})

\* The number of terminal events (end, error) among the upstream events
\* handled: each of their handlers calls res.end() once.
TerminalEvents(emitted) ==
    Len(SelectSeq(emitted, LAMBDA e : e.kind \in {"end", "error"}))

\* C19 (Spec): after every step each response holds at most one terminal
\* marker; an event stream is closed when exactly one terminal event has
\* been handled, and never more than one is; and a response that is closed
\* stays closed and gets no further write.
C19_OneTerminalSignal ==
    [][\A r \in Requests :
          /\ TerminalMarkers(srv'[r].body) <= 1
          /\ TerminalEvents(srv'[r].emitted) <= 1
          /\ srv'[r].sse => (srv'[r].ended <=> TerminalEvents(srv'[r].emitted) = 1)
          /\ srv[r].ended => (srv'[r].ended /\ srv'[r].body = srv[r].body)]_vars

\* The upstream session failed after its final message: the response of
\* server.ts holds the error marker alone and is closed.
C19_Witness ==
    /\ impl = "server"
    /\ srv[1].ended
    /\ Len(srv[1].emitted) = 3
    /\ srv[1].emitted[2].kind = "finalMessage"
    /\ srv[1].emitted[3].kind = "error"
    /\ TerminalMarkers(srv[1].body) = 1
    /\ sess[1].pc = "done"

RECURSIVE TextsOf(_)
\* The texts extracted from the message events of a log that carry a
\* payload, concatenated in the order of the log.
TextsOf(log) ==
    IF log = <<>> THEN ""
    ELSE (IF Get(Head(log), "event") = Str("message") /\ Truthy(Get(Head(log), "payload"))
          THEN extractTextFromPayload(Get(Head(log), "payload"))
          ELSE "")
             \o TextsOf(Tail(log))

\* C20 (SpecParse): every step of a session keeps the event log as a prefix
\* of the new log and makes the transcript the old transcript followed by the
\* texts of the events added, in their order; so the transcript is always
\* the concatenation of the texts of the events logged.
C20_TranscriptAppendOnly ==
    [][/\ Len(events') >= Len(events)
       /\ SubSeq(events', 1, Len(events)) = events
       /\ transcript' = transcript \o TextsOf(SubSeq(events', Len(events) + 1, Len(events')))
       /\ transcript' = TextsOf(events')]_vars

\* Two message events with a text were read, one of them from a frame with
\* no space after "data:".
C20_Witness ==
    /\ sess[1].pc = "done"
    /\ events = <<MessageEvent(Obj([delta |-> Str("a")])),
                  MessageEvent(Obj([text |-> Str("b")]))>>
    /\ transcript = "a" \o "b"

\* C21 (SpecParse): the step in which the read loop ends on `done` leaves
\* the event log, the transcript and the final result as they were, whatever
\* the buffer holds.
C21_LeftoverDiscarded ==
    [][\A s \in Requests :
          (sess[s].pc = "reading" /\ sess'[s].pc = "done") =>
              /\ events' = events
              /\ transcript' = transcript
              /\ finalJson' = finalJson]_vars

\* The stream ended with a data frame that lacks its blank line: the loop
\* ended with that frame in the buffer and only the frame before it applied.
C21_Witness ==
    /\ sess[1].pc = "done"
    /\ sess[1].buffer = <<DataPrefix, SP>>
                            \o JsonStringify(MessageEvent(Obj([delta |-> Str("e")])))
                            \o <<NL>>
    /\ events = <<MessageEvent(Obj([delta |-> Str("a")]))>>
    /\ transcript = "a"

\* C22 (SpecParse): a step that logs final events only leaves the transcript
\* as it was and makes the final result the data of the last of them (null
\* for data null or absent), whatever the transcript holds; a step that logs
\* message events only leaves the final result as it was.
C22_FinalAndTranscriptIndependent ==
    [][LET added == SubSeq(events', Len(events) + 1, Len(events'))
           last == added[Len(added)]
       IN (Len(events') > Len(events)) =>
              /\ (\A i \in 1..Len(added) : Get(added[i], "event") = Str("final")) =>
                     /\ transcript' = transcript
                     /\ finalJson' = IF "data" \notin DOMAIN last.f \/ last.f.data = Null
                                     THEN Null ELSE last.f.data
              /\ (\A i \in 1..Len(added) : Get(added[i], "event") = Str("message")) =>
                     finalJson' = finalJson]_vars

\* A final event with a text in its payload was the only event read: the
\* final result is set and the transcript is still empty.
C22_Witness ==
    /\ sess[1].pc = "done"
    /\ events = <<FinalWithPayload>>
    /\ finalJson = VisaFull
    /\ transcript = ""

\* C23 (SpecSessions): isStreaming is true exactly while some session that
\* startStream began is still awaiting its fetch or in its read loop.
C23_IsStreamingTracksSessions ==
    isStreaming <=> (\E s \in Requests : Active(s))

\* C24 (Spec): a session whose request the relay answered with a status
\* other than 200 has ended with an error message set, the event log and the
\* transcript empty, the final result null, isStreaming false and no
\* controller held.
C24_RejectedRequestEndsInError ==
    \A s \in Requests :
        (srv[s].phase = "handled" /\ srv[s].status # 200
            /\ sess[s].pc \notin {"idle", "fetching", "reading"}) =>
            /\ IsString(error) /\ error.s # ""
            /\ events = <<>>
            /\ transcript = ""
            /\ finalJson = Null
            /\ ~isStreaming
            /\ controllerRef = 0

\* The relay answered an empty message with 400 and the session has ended
\* with the message of the error thrown for that status.
C24_Witness ==
    /\ srv[1].userMessage = Str("")
    /\ srv[1].status = 400
    /\ sess[1].pc = "failed"
    /\ error = Str("Stream failed with status 400")

\* The values of AnswerValues that the rules of the form accept: a name and
\* a nationality with a character that is not a space, a date as
\* YYYY-MM-DD, a passport number of five characters or more between spaces.
AcceptedAnswers(key) ==
    CASE key = "full_name" -> {T(<<"J", "a", "n", "e">>)}
      [] key = "dob" -> {T(<<"1", "9", "9", "1", "-", "0", "4", "-", "1", "2">>)}
      [] key = "nationality" -> {T(<<"U", "K">>)}
      [] key = "passport_number" -> {T(<<"A", "B", "1", "2", "3", "4", "5">>)}

\* C25 (SpecWizard): currentStep is within 0..number of questions and every
\* question before the current step has an accepted answer; so at the review
\* step every answer is accepted.
C25_StepsBehindAreValid ==
    /\ currentStep \in 0..totalSteps
    /\ \A i \in 1..currentStep :
           answers[questions[i].key] \in AcceptedAnswers(questions[i].key)

\* The answers were submitted at the review step; then the review step was
\* left with Back and the answer to the last question was made one that
\* fails.
C25_Witness ==
    /\ currentStep = totalSteps - 1
    /\ answers["passport_number"] = <<SP>> \o T(<<"A", "B", "1", "2">>) \o <<SP>>
    /\ wizardLoading

\* The message the form shows for a question whose answer is not accepted.
RejectionMessage(key) ==
    CASE key = "full_name" -> "Please enter your full name."
      [] key = "dob" -> "Use format YYYY-MM-DD."
      [] key = "nationality" -> "Please enter your nationality."
      [] key = "passport_number" -> "Passport number looks too short."

\* C26 (SpecSubmit): a call of submitIntake sends the request exactly when
\* every answer is accepted, and then wizardLoading is true; when an answer
\* is not accepted no request is sent, wizardError names the first such
\* question in the order of the questions with its message, currentStep is
\* that question and wizardLoading stays false; and the step in which the
\* request settles, with a response or a failure, sets wizardLoading false.
C26_SubmitOnlyWhenAllValid ==
    [][LET failing == {i \in DOMAIN questions :
                          answers[questions[i].key] \notin AcceptedAnswers(questions[i].key)}
           first == CHOOSE i \in failing : \A j \in failing : i <= j
       IN /\ (submit.phase = "none" /\ failing = {}) =>
                 /\ submit'.phase = "pending"
                 /\ wizardLoading'
          /\ (submit.phase = "none" /\ failing # {}) =>
                 /\ submit' = NoSubmit
                 /\ wizardError' = Str(questions[first].title \o ": "
                                          \o RejectionMessage(questions[first].key))
                 /\ currentStep' = first - 1
                 /\ ~wizardLoading'
          /\ (submit.phase = "pending") =>
                 /\ submit'.phase = "none"
                 /\ ~wizardLoading']_vars

\* submitIntake was called while the passport question was shown, with the
\* date and the passport number not accepted: the date, the first of the
\* two, is shown with its message and nothing was sent.
C26_Witness ==
    /\ answers["full_name"] \in AcceptedAnswers("full_name")
    /\ answers["dob"] \notin AcceptedAnswers("dob")
    /\ answers["passport_number"] \notin AcceptedAnswers("passport_number")
    /\ wizardError = Str("Title of dob: Use format YYYY-MM-DD.")
    /\ currentStep = 1
    /\ speaks = {[q |-> "passport_number", cancelled |-> TRUE], [q |-> "dob", cancelled |-> FALSE]}
    /\ submit = NoSubmit
    /\ ~wizardLoading

\* C27 (SpecWizard): a request to /api/tts whose effect was cleaned up
\* changes nothing when it settles; an audio element that starts playing is
\* the one requested for the question shown, it is the element held in
\* questionAudioRef and no other element is playing; and after every step
\* nothing plays at the review step or for a question that is not shown.
C27_OnlyCurrentQuestionPlays ==
    [][/\ \A s \in speaks \ speaks' :
              s.cancelled => /\ playing' = playing
                             /\ questionAudioRef' = questionAudioRef
       /\ \A q \in playing' \ playing :
              /\ ~isReviewStep(currentStep')
              /\ q = QuestionAt(currentStep').key
              /\ questionAudioRef' = q
              /\ playing' = {q}
       /\ \A q \in playing' :
              /\ ~isReviewStep(currentStep')
              /\ q = QuestionAt(currentStep').key]_vars

\* The second question is shown and its audio plays while the request made
\* for the first question, cleaned up since, has not settled yet.
C27_Witness ==
    /\ currentStep = 1
    /\ playing = {"dob"}
    /\ questionAudioRef = "dob"
    /\ speaks = {[q |-> "full_name", cancelled |-> TRUE]}

====
